---- MODULE Spec2Model ----
(***************************************************************************)
(* Year-end rollover of a GnuCash book (jahreswechsel.py): the account     *)
(* tree of the old book is replicated into the target book, the balances   *)
(* of the eligible accounts are accumulated per (type bucket, commodity)   *)
(* into open transactions, and every such transaction is then balanced     *)
(* against an "Equity:Opening Balances" account and committed.             *)
(*                                                                         *)
(* Accounts, transactions and splits of the target book are numbered by    *)
(* their position in the sequence that holds them; 0 stands for the root   *)
(* account (as a parent) and for Python's None (as an account reference).  *)
(* The gnucash binding's Account.lookup_by_name is taken by its use in     *)
(* find_or_make_account: the first child of that name, in child order.     *)
(***************************************************************************)
EXTENDS Integers, Sequences, FiniteSets, TLC

(***************************************************************************)
(* Bounds of the model.                                                    *)
(***************************************************************************)
\* the accounts of the old book (below its root), in creation order
AccountIds == 1 .. 2
\* balances have numerators in -MaxNum .. MaxNum
MaxNum == 1

(***************************************************************************)
(* Program constants.                                                      *)
(***************************************************************************)
None == 0
Root == 0

AcctType ==
    { "ACCT_TYPE_NONE", "ACCT_TYPE_BANK", "ACCT_TYPE_CASH", "ACCT_TYPE_CREDIT",
      "ACCT_TYPE_ASSET", "ACCT_TYPE_LIABILITY", "ACCT_TYPE_STOCK",
      "ACCT_TYPE_MUTUAL", "ACCT_TYPE_CURRENCY", "ACCT_TYPE_INCOME",
      "ACCT_TYPE_EXPENSE", "ACCT_TYPE_EQUITY", "ACCT_TYPE_RECEIVABLE",
      "ACCT_TYPE_PAYABLE", "ACCT_TYPE_ROOT", "ACCT_TYPE_TRADING",
      "ACCT_TYPE_CHECKING", "ACCT_TYPE_SAVINGS", "ACCT_TYPE_MONEYMRKT",
      "ACCT_TYPE_CREDITLINE" }

ACCOUNT_TYPES_TO_OPEN_KeepIncome ==
    ( ( { "ACCT_TYPE_BANK", "ACCT_TYPE_CASH", "ACCT_TYPE_CREDIT",
          "ACCT_TYPE_ASSET", "ACCT_TYPE_LIABILITY", "ACCT_TYPE_STOCK",
          "ACCT_TYPE_MUTUAL", "ACCT_TYPE_INCOME", "ACCT_TYPE_EXPENSE",
          "ACCT_TYPE_EQUITY", "ACCT_TYPE_RECEIVABLE", "ACCT_TYPE_PAYABLE",
          "ACCT_TYPE_TRADING" }
        \ { "ACCT_TYPE_EXPENSE" } )
      \ { "ACCT_TYPE_STOCK", "ACCT_TYPE_MUTUAL", "ACCT_TYPE_RECEIVABLE",
          "ACCT_TYPE_PAYABLE" } )
    \ { "ACCT_TYPE_TRADING" }

\* the set as lines 138-176 compute it: all thirteen, less income and
\* expense, less the lot-based types, less trading
ACCOUNT_TYPES_TO_OPEN ==
    ( ( { "ACCT_TYPE_BANK", "ACCT_TYPE_CASH", "ACCT_TYPE_CREDIT",
          "ACCT_TYPE_ASSET", "ACCT_TYPE_LIABILITY", "ACCT_TYPE_STOCK",
          "ACCT_TYPE_MUTUAL", "ACCT_TYPE_INCOME", "ACCT_TYPE_EXPENSE",
          "ACCT_TYPE_EQUITY", "ACCT_TYPE_RECEIVABLE", "ACCT_TYPE_PAYABLE",
          "ACCT_TYPE_TRADING" }
        \ { "ACCT_TYPE_INCOME", "ACCT_TYPE_EXPENSE" } )
      \ { "ACCT_TYPE_STOCK", "ACCT_TYPE_MUTUAL", "ACCT_TYPE_RECEIVABLE",
          "ACCT_TYPE_PAYABLE" } )
    \ { "ACCT_TYPE_TRADING" }

OPENING_BALANCE_ACCOUNT == << "Equity", "Opening Balances" >>

OPENING_DATE == << 1, 1, 2011 >>

\* the currency that is to own the unsuffixed opening account; a commodity
\* is the pair (namespace, mnemonic)
PREFERRED_CURRENCY == << "CURRENCY", "CAD" >>

\* main() always passes the keys "asset" and "liability"; the wildcard
\* bucket "*" is added last
TrackedTypes == << "ACCT_TYPE_ASSET", "ACCT_TYPE_LIABILITY" >>

BucketOrder == TrackedTypes \o << "*" >>

(***************************************************************************)
(* GncNumeric: an exact rational num/denom, denom > 0.                     *)
(***************************************************************************)
GncNumeric(n, d) == [num |-> n, denom |-> d]

RECURSIVE Gcd(_, _)
Gcd(a, b) == IF b = 0 THEN a ELSE Gcd(b, a % b)

Lcm(a, b) == (a * b) \div Gcd(a, b)

\* a.add(b, GNC_DENOM_AUTO, GNC_HOW_DENOM_EXACT)
GncAdd(a, b) ==
    LET l == Lcm(a.denom, b.denom)
    IN  GncNumeric(a.num * (l \div a.denom) + b.num * (l \div b.denom), l)

\* a.sub(b, GNC_DENOM_AUTO, GNC_HOW_DENOM_EXACT)
GncSub(a, b) ==
    LET l == Lcm(a.denom, b.denom)
    IN  GncNumeric(a.num * (l \div a.denom) - b.num * (l \div b.denom), l)

GncNeg(a) == GncNumeric(0 - a.num, a.denom)

\* equality of the rational values
GncEq(a, b) == a.num * b.denom = b.num * a.denom

(***************************************************************************)
(* The old book: the inputs of a run.                                      *)
(***************************************************************************)
Commodities == { << "CURRENCY", "CAD" >>, << "CURRENCY", "USD" >> }

Mnemonic(c) == c[2]

Namespace(c) == c[1]

reconstruct_account_name_with_mnemonic(account_tuple, mnemonic) ==
    [account_tuple EXCEPT ![Len(account_tuple)] = @ \o " - " \o mnemonic]

\* the names of the opening accounts: the ones find_or_make_account looks
\* up, which an account of the old book may bear already
OpeningNames ==
    { "Equity", "Opening Balances" }
    \cup { reconstruct_account_name_with_mnemonic(
               OPENING_BALANCE_ACCOUNT, Mnemonic(c))[2] :
               c \in Commodities \ {PREFERRED_CURRENCY} }

\* types of the ledger accounts of the old book: tracked and eligible;
\* eligible, not tracked; ineligible; never classified
SourceTypes ==
    { "ACCT_TYPE_ASSET", "ACCT_TYPE_BANK", "ACCT_TYPE_INCOME",
      "ACCT_TYPE_CHECKING" }

\* whole balances, and one that needs another denominator
Balances ==
    { GncNumeric(n, 1) : n \in (0 - MaxNum) .. MaxNum }
    \cup { GncNumeric(1, 2) }

\* an account of the old book is a ledger account of any type, commodity
\* and balance, or an equity account that lies where the opening accounts
\* go, empty or not
SourceAccounts ==
    [ name : {"Bank"}, type : SourceTypes, commodity : Commodities,
      balance : Balances ]
    \cup [ name : OpeningNames, type : {"ACCT_TYPE_EQUITY"},
           commodity : Commodities,
           balance : {GncNumeric(0, 1), GncNumeric(1, 1)} ]

\* parent[i] is the parent of account i: the root or an earlier account
SourceTrees ==
    { p \in [AccountIds -> {Root} \cup AccountIds] :
        \A i \in AccountIds : p[i] < i }

\* the children of an account of the old book, in child order
get_children(tree, parent) ==
    SelectSeq([i \in AccountIds |-> i], LAMBDA i : tree[i] = parent)

\* the target file may exist already (line 428: a warning, and the run goes
\* on): a new target is empty; the other one holds last year's opening
\* accounts, both in the same commodity
ExistingAccounts ==
    << [name |-> "Equity", parent |-> Root, commodity |-> << "CURRENCY", "USD" >>,
        type |-> "ACCT_TYPE_EQUITY", orig |-> None],
       [name |-> "Opening Balances", parent |-> 1,
        commodity |-> << "CURRENCY", "USD" >>,
        type |-> "ACCT_TYPE_EQUITY", orig |-> None],
       [name |-> "Opening Balances - CAD", parent |-> 1,
        commodity |-> << "CURRENCY", "USD" >>,
        type |-> "ACCT_TYPE_EQUITY", orig |-> None] >>

ExistingCommodities == << << "CURRENCY", "USD" >> >>

\* the business entities of the old book, as get_all returns them per class
Entities ==
    [ Vendor |-> << "v1" >>, Customer |-> << "c1" >>, Employee |-> << >> ]

EntityClasses == << "Vendor", "Customer", "Employee" >>

(***************************************************************************)
(* State.                                                                  *)
(***************************************************************************)
VARIABLES
    original,       \* the old book's accounts: [name, type, commodity, balance]
    original_tree,  \* the old book's tree: account -> parent
    target_existed, \* os.path.exists(target) at line 428
    accounts,       \* the target book's accounts, in creation order
    commodtable,    \* the target book's commodity table, in insertion order
    transactions,   \* the target book's transactions
    splits,         \* the target book's splits, in creation order
    opening_balances_per_type_and_curr,
                    \* type bucket -> entries [key, trans, total], in
                    \* insertion order (a dict)
    stack,          \* the calls of recursively_build_account_tree in
                    \* progress: [orig, new, rest], rest the children still
                    \* to visit
    main_currency,  \* the result of get_main_currency (line 474)
    pc,             \* "replicate", "finalize", "business", "done", "aborted"
    a_type,         \* finalization: index into BucketOrder of the outer loop
    phase,          \* finalization: "preferred" or "others" within a_type
    idx,            \* finalization: position of the inner loop (line 490)
    old_book,       \* whether line 488 has bound old_book
    cls,            \* duplicate_business: index into EntityClasses
    cloned,         \* the entities cloned into the target book
    error,          \* the exception that ended the run, "" if none
    calls           \* the calls of create_opening_balance_transaction so
                    \* far, in order, each with what it was given and did

vars ==
    << original, original_tree, target_existed, accounts, commodtable,
       transactions, splits, opening_balances_per_type_and_curr, stack,
       main_currency, pc, a_type, phase, idx, old_book, cls, cloned, error,
       calls >>

Init ==
    /\ original \in [AccountIds -> SourceAccounts]
    /\ original_tree \in SourceTrees
    /\ target_existed \in BOOLEAN
    /\ accounts = IF target_existed THEN ExistingAccounts ELSE << >>
    /\ commodtable = IF target_existed THEN ExistingCommodities ELSE << >>
    /\ transactions = << >>
    /\ splits = << >>
    /\ opening_balances_per_type_and_curr =
           [b \in { BucketOrder[i] : i \in DOMAIN BucketOrder } |-> << >>]
    /\ stack = << [orig |-> Root, new |-> Root,
                   rest |-> get_children(original_tree, Root)] >>
    /\ main_currency = << >>
    /\ pc = "replicate"
    /\ a_type = 1
    /\ phase = "preferred"
    /\ idx = 1
    /\ old_book = FALSE
    /\ cls = 1
    /\ cloned = << >>
    /\ error = ""
    /\ calls = << >>

(***************************************************************************)
(* Replication: recursively_build_account_tree and record_opening_balance. *)
(***************************************************************************)
\* new_commodity_table.lookup(namespace, mnemonic): is there such an entry
TableHas(table, commodity) ==
    \E i \in DOMAIN table : table[i] = commodity

\* new_commodity_table.lookup(namespace, mnemonic): the first entry of that
\* namespace and mnemonic, None (the empty tuple) when there is none
lookup(table, commodity) ==
    IF TableHas(table, commodity)
    THEN table[CHOOSE i \in DOMAIN table :
                   /\ table[i] = commodity
                   /\ \A j \in DOMAIN table : table[j] = commodity => i <= j]
    ELSE << >>

ensure_commodity_AlwaysInsert(table, commodity) ==
    Append(table, commodity)

ensure_commodity_NeverInsert(table, commodity) ==
    table

\* lines 278-281: look the commodity up, clone and insert it when absent
ensure_commodity(table, commodity) ==
    IF TableHas(table, commodity) THEN table ELSE Append(table, commodity)

\* position of the entry of `key` in a dict, 0 when it has none
KeyIndex(dict, key) ==
    IF \E i \in DOMAIN dict : dict[i].key = key
    THEN CHOOSE i \in DOMAIN dict :
             /\ dict[i].key = key
             /\ \A j \in DOMAIN dict : dict[j].key = key => i <= j
    ELSE 0

is_eligible_NoZeroCheck(acct_type, final_balance) ==
    acct_type \in ACCOUNT_TYPES_TO_OPEN

\* lines 221-223: the type is one to open and the balance is not zero
is_eligible(acct_type, final_balance) ==
    /\ acct_type \in ACCOUNT_TYPES_TO_OPEN
    /\ final_balance.num # 0

type_bucket_AlwaysWildcard(acct_type, balances) ==
    "*"

\* lines 228-231: the type's own dict when it has one, the wildcard's else
type_bucket(acct_type, balances) ==
    IF acct_type \in DOMAIN balances THEN acct_type ELSE "*"

new_total_Add(total, final_balance) ==
    GncAdd(total, final_balance)

\* lines 241-243
new_total(total, final_balance) ==
    GncSub(total, final_balance)

initialize_split(value, account, trans) ==
    [value |-> value, account |-> account, parent |-> trans]

\* Transaction(new_book); trans.BeginEdit()
NewTransaction ==
    [state |-> "open", date |-> << >>, currency |-> << >>, description |-> ""]

\* record_opening_balance on the books `b` = [balances, transactions,
\* splits], ct being the commodity_tuple; the result is the same record
\* after the call
record_opening_balance(b, original_account, new_account, acct_type, ct) ==
    IF ~ is_eligible(acct_type, original_account.balance)
    THEN b
    ELSE
      LET final_balance == original_account.balance
          bucket == type_bucket(acct_type, b.balances)
          dict == b.balances[bucket]
          fresh == KeyIndex(dict, ct) = 0
          transactions1 ==
              IF fresh THEN Append(b.transactions, NewTransaction)
              ELSE b.transactions
          dict1 ==
              IF fresh
              THEN Append(dict, [key |-> ct,
                                 trans |-> Len(transactions1),
                                 total |-> GncNumeric(0, 1)])
              ELSE dict
          i == KeyIndex(dict1, ct)
          trans == dict1[i].trans
          total == dict1[i].total
      IN  [ balances |->
                [b.balances EXCEPT ![bucket] =
                    [dict1 EXCEPT ![i] =
                        [key |-> ct, trans |-> trans,
                         total |-> new_total(total, final_balance)]]],
            transactions |-> transactions1,
            splits |-> Append(b.splits,
                              initialize_split(final_balance, new_account,
                                               trans)) ]

new_child_UnderRoot(original_account, new_parent_account, child) ==
    [name |-> original_account.name, parent |-> Root,
     commodity |-> original_account.commodity,
     type |-> original_account.type, orig |-> child]

\* lines 263-277: the new account, attached to its parent, with the
\* attributes of the original and the commodity to look up in the target's
\* table; orig names the original
new_child(original_account, new_parent_account, child) ==
    [name |-> original_account.name, parent |-> new_parent_account,
     commodity |-> original_account.commodity,
     type |-> original_account.type, orig |-> child]

\* one pass of the loop of recursively_build_account_tree (lines 261-294):
\* the next child is created, given its commodity and its opening balance,
\* and the call for its own children begins
ReplicateChild ==
    /\ pc = "replicate"
    /\ stack # << >>
    /\ Head(stack).rest # << >>
    /\ LET frame == Head(stack)
           child == Head(frame.rest)
           original_account == original[child]
           new_account == Len(accounts) + 1
           b == record_opening_balance(
                    [balances |-> opening_balances_per_type_and_curr,
                     transactions |-> transactions, splits |-> splits],
                    original_account, new_account, original_account.type,
                    original_account.commodity)
       IN  /\ commodtable' =
                  ensure_commodity(commodtable, original_account.commodity)
           /\ accounts' =
                  Append(accounts,
                         [new_child(original_account, frame.new, child)
                             EXCEPT !.commodity =
                                 lookup(commodtable',
                                        original_account.commodity)])
           /\ opening_balances_per_type_and_curr' = b.balances
           /\ transactions' = b.transactions
           /\ splits' = b.splits
           /\ stack' =
                  << [orig |-> child, new |-> new_account,
                      rest |-> get_children(original_tree, child)],
                     [frame EXCEPT !.rest = Tail(frame.rest)] >>
                  \o Tail(stack)
    /\ UNCHANGED << original, original_tree, target_existed, main_currency,
                    pc, a_type, phase, idx, old_book, cls, cloned, error,
                    calls >>

\* the loop of a call is exhausted: the call returns
ReturnFromCall ==
    /\ pc = "replicate"
    /\ stack # << >>
    /\ Head(stack).rest = << >>
    /\ stack' = Tail(stack)
    /\ UNCHANGED << original, original_tree, target_existed, accounts,
                    commodtable, transactions, splits,
                    opening_balances_per_type_and_curr, main_currency, pc,
                    a_type, phase, idx, old_book, cls, cloned, error,
                    calls >>

(***************************************************************************)
(* Finalization: find_or_make_account and                                  *)
(* create_opening_balance_transaction.                                     *)
(***************************************************************************)
\* parent_account.lookup_by_name(name): the first child of that name
lookup_by_name(accts, parent_account, name) ==
    IF \E i \in DOMAIN accts :
           accts[i].parent = parent_account /\ accts[i].name = name
    THEN CHOOSE i \in DOMAIN accts :
             /\ accts[i].parent = parent_account
             /\ accts[i].name = name
             /\ \A j \in DOMAIN accts :
                    (accts[j].parent = parent_account /\ accts[j].name = name)
                        => i <= j
    ELSE None

commodity_matches_Always(account_commod, currency) ==
    TRUE

\* lines 328-331
commodity_matches(account_commod, currency) ==
    << Mnemonic(account_commod), Namespace(account_commod) >>
        = << Mnemonic(currency), Namespace(currency) >>

\* find_or_make_account (lines 304-334) on the accounts `accts`: the
\* accounts after the call and the account returned (None on a mismatch)
RECURSIVE find_or_make_account(_, _, _, _)
find_or_make_account(accts, account_tuple, parent_account, currency) ==
    LET current_account_name == Head(account_tuple)
        account_path == Tail(account_tuple)
        found == lookup_by_name(accts, parent_account, current_account_name)
        accts1 ==
            IF found = None
            THEN Append(accts, [name |-> current_account_name,
                                parent |-> parent_account,
                                commodity |-> currency,
                                type |-> "ACCT_TYPE_NONE",
                                orig |-> None])
            ELSE accts
        current_account == IF found = None THEN Len(accts1) ELSE found
    IN  IF Len(account_path) > 0
        THEN find_or_make_account(accts1, account_path, current_account,
                                  currency)
        ELSE IF commodity_matches(accts1[current_account].commodity, currency)
             THEN [accounts |-> accts1, result |-> current_account]
             ELSE [accounts |-> accts1, result |-> None]

\* one call of find_or_make_account from the root, as the record kept of it
Resolve(accts, account_tuple, currency) ==
    LET r == find_or_make_account(accts, account_tuple, Root, currency)
    IN  [account_tuple |-> account_tuple, currency |-> currency,
         before |-> accts, after |-> r.accounts, result |-> r.result]

resolve_opening_account_CanonicalForAll(accts, currency, is_main_currency) ==
    LET first == Resolve(accts, OPENING_BALANCE_ACCOUNT, currency)
    IN  IF first.result = None
        THEN << first,
                Resolve(first.after,
                        reconstruct_account_name_with_mnemonic(
                            OPENING_BALANCE_ACCOUNT, Mnemonic(currency)),
                        currency) >>
        ELSE << first >>

resolve_opening_account_NoRetry(accts, currency, is_main_currency) ==
    IF is_main_currency
    THEN << Resolve(accts, OPENING_BALANCE_ACCOUNT, currency) >>
    ELSE << Resolve(accts,
                    reconstruct_account_name_with_mnemonic(
                        OPENING_BALANCE_ACCOUNT, Mnemonic(currency)),
                    currency) >>

\* lines 358-371: the calls of find_or_make_account that one finalization
\* makes, in order; the last one's result is the opening account
resolve_opening_account(accts, currency, is_main_currency) ==
    LET mnemonic_account_pieces ==
            reconstruct_account_name_with_mnemonic(
                OPENING_BALANCE_ACCOUNT, Mnemonic(currency))
    IN  IF is_main_currency
        THEN LET first == Resolve(accts, OPENING_BALANCE_ACCOUNT, currency)
             IN  IF first.result = None
                 THEN << first,
                         Resolve(first.after, mnemonic_account_pieces,
                                 currency) >>
                 ELSE << first >>
        ELSE << Resolve(accts, mnemonic_account_pieces, currency) >>

\* choke_on_none_for_no_account (lines 337-343): does it raise
choke_on_none_for_no_account(opening_account) ==
    opening_account = None

\* line 376
needs_balancing_split(opening_amount) ==
    opening_amount.num # 0

\* create_opening_balance_transaction (lines 346-383) on the books `b` =
\* [accounts, transactions, splits]: the books after the call, the
\* exception it raised ("" if none) and the record of the call
create_opening_balance_transaction(b, table, commodity, opening_trans, opening_amount, is_main_currency) ==
    LET call0 ==
            [ key |-> commodity, is_main_currency |-> is_main_currency,
              trans |-> opening_trans, amount |-> opening_amount,
              resolved |-> << >>, opening_account |-> None,
              before |-> b.accounts, after |-> b.accounts,
              splits_before |-> Len(b.splits), raised |-> TRUE ]
    IN  IF ~ TableHas(table, commodity)
        THEN \* line 356: currency is None
             [ accounts |-> b.accounts, transactions |-> b.transactions,
               splits |-> b.splits, error |-> "AttributeError",
               call |-> call0 ]
        ELSE
          LET resolved ==
                  resolve_opening_account(b.accounts, commodity,
                                          is_main_currency)
              last == resolved[Len(resolved)]
              opening_account == last.result
              call1 == [call0 EXCEPT !.resolved = resolved,
                                     !.opening_account = opening_account,
                                     !.after = last.after]
          IN  IF choke_on_none_for_no_account(opening_account)
              THEN [ accounts |-> last.after,
                     transactions |-> b.transactions, splits |-> b.splits,
                     error |-> "account currency and name mismatch",
                     call |-> call1 ]
              ELSE [ accounts |-> last.after,
                     transactions |->
                         [b.transactions EXCEPT ![opening_trans] =
                             [state |-> "committed", date |-> OPENING_DATE,
                              currency |-> commodity,
                              description |-> "Opening Balance"]],
                     splits |->
                         IF needs_balancing_split(opening_amount)
                         THEN Append(b.splits,
                                     initialize_split(opening_amount,
                                                      opening_account,
                                                      opening_trans))
                         ELSE b.splits,
                     error |-> "",
                     call |-> [call1 EXCEPT !.raised = FALSE] ]

(***************************************************************************)
(* duplicate_with_opening_balance, from line 474 on.                       *)
(***************************************************************************)
\* the keys of the entries of all dicts, in the order of the outer and the
\* inner loop
RECURSIVE AllKeys(_, _)
AllKeys(balances, i) ==
    IF i > Len(BucketOrder) THEN << >>
    ELSE [j \in DOMAIN balances[BucketOrder[i]] |->
              balances[BucketOrder[i]][j].key]
         \o AllKeys(balances, i + 1)

\* get_main_currency: the preferred currency when it has an entry, else the
\* first currency that has one, else None (the empty tuple)
get_main_currency(balances) ==
    LET keys == AllKeys(balances, 1)
    IN  IF \E i \in DOMAIN keys : keys[i] = PREFERRED_CURRENCY
        THEN PREFERRED_CURRENCY
        ELSE IF keys # << >> THEN keys[1] ELSE << >>

\* the tree is replicated: lines 464-474
FinishReplication ==
    /\ pc = "replicate"
    /\ stack = << >>
    /\ main_currency' = get_main_currency(opening_balances_per_type_and_curr)
    /\ pc' = "finalize"
    /\ UNCHANGED << original, original_tree, target_existed, accounts,
                    commodtable, transactions, splits,
                    opening_balances_per_type_and_curr, stack, a_type, phase,
                    idx, old_book, cls, cloned, error, calls >>

CurrentDict ==
    opening_balances_per_type_and_curr[BucketOrder[a_type]]

InLoop ==
    /\ pc = "finalize"
    /\ a_type <= Len(BucketOrder)

\* line 479
has_preferred_entry(dict) ==
    KeyIndex(dict, PREFERRED_CURRENCY) # 0

Remove_Nothing(dict, i) ==
    dict

\* the dict without its entry i (del, line 486)
Remove(dict, i) ==
    [j \in 1 .. (Len(dict) - 1) |-> IF j < i THEN dict[j] ELSE dict[j + 1]]

\* lines 477-478: an empty dict is passed over
SkipEmptyBucket ==
    /\ InLoop
    /\ phase = "preferred"
    /\ CurrentDict = << >>
    /\ a_type' = a_type + 1
    /\ UNCHANGED << original, original_tree, target_existed, accounts,
                    commodtable, transactions, splits,
                    opening_balances_per_type_and_curr, stack, main_currency,
                    pc, phase, idx, old_book, cls, cloned, error, calls >>

\* the books and the record of the call, as a call `r` of
\* create_opening_balance_transaction leaves them; an exception ends the run
AfterCall(r) ==
    /\ accounts' = r.accounts
    /\ transactions' = r.transactions
    /\ splits' = r.splits
    /\ calls' = Append(calls, r.call)
    /\ error' = r.error
    /\ pc' = IF r.error # "" THEN "aborted" ELSE pc

\* lines 479-488 when the dict has an entry of the preferred currency: it is
\* finalized as the main currency and deleted from the dict
FinalizePreferred ==
    /\ InLoop
    /\ phase = "preferred"
    /\ CurrentDict # << >>
    /\ has_preferred_entry(CurrentDict)
    /\ AfterCall(create_opening_balance_transaction(
                     [accounts |-> accounts, transactions |-> transactions,
                      splits |-> splits],
                     commodtable, PREFERRED_CURRENCY,
                     CurrentDict[KeyIndex(CurrentDict,
                                          PREFERRED_CURRENCY)].trans,
                     CurrentDict[KeyIndex(CurrentDict,
                                          PREFERRED_CURRENCY)].total,
                     TRUE))
    /\ IF error' # ""
       THEN UNCHANGED << opening_balances_per_type_and_curr, phase, idx,
                         old_book >>
       ELSE /\ opening_balances_per_type_and_curr' =
                   [opening_balances_per_type_and_curr
                       EXCEPT ![BucketOrder[a_type]] =
                           Remove(CurrentDict,
                                  KeyIndex(CurrentDict, PREFERRED_CURRENCY))]
            /\ old_book' = TRUE
            /\ phase' = "others"
            /\ idx' = 1
    /\ UNCHANGED << original, original_tree, target_existed, commodtable,
                    stack, main_currency, a_type, cls, cloned >>

\* lines 479 and 488 when the dict has no entry of the preferred currency
NoPreferredEntry ==
    /\ InLoop
    /\ phase = "preferred"
    /\ CurrentDict # << >>
    /\ ~ has_preferred_entry(CurrentDict)
    /\ old_book' = TRUE
    /\ phase' = "others"
    /\ idx' = 1
    /\ UNCHANGED << original, original_tree, target_existed, accounts,
                    commodtable, transactions, splits,
                    opening_balances_per_type_and_curr, stack, main_currency,
                    pc, a_type, cls, cloned, error, calls >>

\* one pass of the loop of lines 490-496: the next entry of the dict is
\* finalized, never as the main currency
FinalizeOther ==
    /\ InLoop
    /\ phase = "others"
    /\ idx <= Len(CurrentDict)
    /\ AfterCall(create_opening_balance_transaction(
                     [accounts |-> accounts, transactions |-> transactions,
                      splits |-> splits],
                     commodtable, CurrentDict[idx].key,
                     CurrentDict[idx].trans, CurrentDict[idx].total, FALSE))
    /\ idx' = IF error' # "" THEN idx ELSE idx + 1
    /\ UNCHANGED << original, original_tree, target_existed, commodtable,
                    opening_balances_per_type_and_curr, stack, main_currency,
                    a_type, phase, old_book, cls, cloned >>

\* the loop of lines 490-496 is exhausted: the outer loop goes on
NextBucket ==
    /\ InLoop
    /\ phase = "others"
    /\ idx > Len(CurrentDict)
    /\ a_type' = a_type + 1
    /\ phase' = "preferred"
    /\ idx' = 1
    /\ UNCHANGED << original, original_tree, target_existed, accounts,
                    commodtable, transactions, splits,
                    opening_balances_per_type_and_curr, stack, main_currency,
                    pc, old_book, cls, cloned, error, calls >>

\* line 498: the outer loop is exhausted and duplicate_business is called
\* with old_book, which only a pass over a dict with entries has bound
StartBusiness ==
    /\ pc = "finalize"
    /\ a_type > Len(BucketOrder)
    /\ IF old_book
       THEN /\ pc' = "business"
            /\ error' = error
       ELSE /\ pc' = "aborted"
            /\ error' = "UnboundLocalError"
    /\ UNCHANGED << original, original_tree, target_existed, accounts,
                    commodtable, transactions, splits,
                    opening_balances_per_type_and_curr, stack, main_currency,
                    a_type, phase, idx, old_book, cls, cloned, calls >>

\* one pass of the loop of duplicate_business (lines 401-408): every entity
\* of the class is cloned into the target book
CloneClass ==
    /\ pc = "business"
    /\ cls <= Len(EntityClasses)
    /\ cloned' = cloned \o Entities[EntityClasses[cls]]
    /\ cls' = cls + 1
    /\ UNCHANGED << original, original_tree, target_existed, accounts,
                    commodtable, transactions, splits,
                    opening_balances_per_type_and_curr, stack, main_currency,
                    pc, a_type, phase, idx, old_book, error, calls >>

\* duplicate_business returns; the sessions are closed
FinishRun ==
    /\ pc = "business"
    /\ cls > Len(EntityClasses)
    /\ pc' = "done"
    /\ UNCHANGED << original, original_tree, target_existed, accounts,
                    commodtable, transactions, splits,
                    opening_balances_per_type_and_curr, stack, main_currency,
                    a_type, phase, idx, old_book, cls, cloned, error,
                    calls >>

Next ==
    \/ ReplicateChild
    \/ ReturnFromCall
    \/ FinishReplication
    \/ SkipEmptyBucket
    \/ FinalizePreferred
    \/ NoPreferredEntry
    \/ FinalizeOther
    \/ NextBucket
    \/ StartBusiness
    \/ CloneClass
    \/ FinishRun

Spec == Init /\ [][Next]_vars

(***************************************************************************)
(* Notions the properties are stated in.                                   *)
(***************************************************************************)
\* the names from the root down to account a
RECURSIVE PathOf(_, _)
PathOf(accts, a) ==
    IF a = Root THEN << >>
    ELSE Append(PathOf(accts, accts[a].parent), accts[a].name)

\* the account that lies at `path` below `parent`, None when there is none
RECURSIVE AccountAt(_, _, _)
AccountAt(accts, path, parent) ==
    IF path = << >> THEN parent
    ELSE LET a == lookup_by_name(accts, parent, Head(path))
         IN  IF a = None THEN None ELSE AccountAt(accts, Tail(path), a)

SuffixedPath(commodity) ==
    << "Equity", "Opening Balances - " \o Mnemonic(commodity) >>

RECURSIVE SumValues(_)
SumValues(values) ==
    IF values = << >> THEN GncNumeric(0, 1)
    ELSE GncAdd(Head(values), SumValues(Tail(values)))

\* the values of the splits of transaction t
ValuesOf(t) ==
    LET own == SelectSeq(splits, LAMBDA sp : sp.parent = t)
    IN  [i \in DOMAIN own |-> own[i].value]

\* the splits on account a
SplitsOn(a) == SelectSeq(splits, LAMBDA sp : sp.account = a)

\* the accounts of the target book that replicate an account of the old one
Replicated == { a \in DOMAIN accounts : accounts[a].orig # None }

\* no bucket has been finalized, nor was it tried
NothingFinalized == pc \in {"replicate", "finalize"} /\ calls = << >>

\* the eligible types and the bucket of a type, as the specification words
\* them
EligibleTypes ==
    { "ACCT_TYPE_BANK", "ACCT_TYPE_CASH", "ACCT_TYPE_CREDIT",
      "ACCT_TYPE_ASSET", "ACCT_TYPE_LIABILITY", "ACCT_TYPE_EQUITY" }

BucketOfType(type) ==
    IF type \in {"ACCT_TYPE_ASSET", "ACCT_TYPE_LIABILITY"} THEN type ELSE "*"

\* the replicated accounts that contribute to the bucket (b, c), in order
Contributors(b, c) ==
    SelectSeq([a \in DOMAIN accounts |-> a],
              LAMBDA a : /\ accounts[a].orig # None
                         /\ accounts[a].type \in EligibleTypes
                         /\ BucketOfType(accounts[a].type) = b
                         /\ original[accounts[a].orig].commodity = c)

ContributedBalances(b, c) ==
    LET who == Contributors(b, c)
    IN  [i \in DOMAIN who |-> original[accounts[who[i]].orig].balance]

EntriesOf(b, c) ==
    { i \in DOMAIN opening_balances_per_type_and_curr[b] :
        opening_balances_per_type_and_curr[b][i].key = c }

BucketNames == { BucketOrder[i] : i \in DOMAIN BucketOrder }

\* the currency of the bucket of transaction t: that of the account of its
\* first split
CurrencyOf(t) ==
    accounts[SelectSeq(splits, LAMBDA sp : sp.parent = t)[1].account].commodity

HasBucket(c) == \E t \in DOMAIN transactions : CurrencyOf(t) = c

\* the currency met first during replication
FirstCurrency == accounts[splits[1].account].commodity

(***************************************************************************)
(* C1  Balance conservation: once the transaction of a bucket is           *)
(* committed, the exact rational sum of its splits (those of the accounts  *)
(* and the balancing one, if any) is zero.                                 *)
(***************************************************************************)
C1_BalanceConservation ==
    \A t \in DOMAIN transactions :
        transactions[t].state = "committed" => SumValues(ValuesOf(t)).num = 0

\* a committed transaction of two accounts whose balances have different
\* denominators, and a balancing split
C1_Witness ==
    \E t \in DOMAIN transactions :
        /\ transactions[t].state = "committed"
        /\ Len(ValuesOf(t)) = 3
        /\ \E i, j \in DOMAIN ValuesOf(t) :
               ValuesOf(t)[i].denom # ValuesOf(t)[j].denom

(***************************************************************************)
(* C2  Canonical-path ownership, as claimed: in a completed run that       *)
(* opened a bucket, the buckets finalized against "Equity:Opening          *)
(* Balances" are exactly those of one currency, the preferred one when it  *)
(* has a bucket and the one met first otherwise.  The claim is stated for  *)
(* the runs in which find_or_make_account refused no path, so that no      *)
(* account of another commodity stood in the way of that currency.         *)
(***************************************************************************)
C2_Owner ==
    IF HasBucket(PREFERRED_CURRENCY) THEN PREFERRED_CURRENCY
    ELSE FirstCurrency

C2_CanonicalOwnership ==
    (/\ pc = "done"
     /\ transactions # << >>
     /\ \A i \in DOMAIN calls :
            \A k \in DOMAIN calls[i].resolved :
                calls[i].resolved[k].result # None)
        => /\ \E i \in DOMAIN calls : calls[i].key = C2_Owner
           /\ \A i \in DOMAIN calls :
                  (PathOf(accounts, calls[i].opening_account)
                       = OPENING_BALANCE_ACCOUNT)
                      <=> calls[i].key = C2_Owner

C3_CanonicalTaken(accts, c) ==
    /\ AccountAt(accts, OPENING_BALANCE_ACCOUNT, Root) # None
    /\ accts[AccountAt(accts, OPENING_BALANCE_ACCOUNT, Root)].commodity # c

Resolutions ==
    UNION { { calls[i].resolved[k] : k \in DOMAIN calls[i].resolved } :
            i \in DOMAIN calls }

(***************************************************************************)
(* C4  Resolver contract: find_or_make_account returns an account that     *)
(* lies at exactly the path asked for and has the commodity asked for, or  *)
(* None; it returns None only when the leaf existed already with another   *)
(* commodity, and then it created no account; a leaf the call creates is   *)
(* returned.                                                               *)
(***************************************************************************)
C4_ResolverContract ==
    \A r \in Resolutions :
        LET leaf == AccountAt(r.before, r.account_tuple, Root)
        IN  /\ r.result # None
                => /\ r.result \in DOMAIN r.after
                   /\ PathOf(r.after, r.result) = r.account_tuple
                   /\ r.after[r.result].commodity = r.currency
            /\ r.result = None
                => /\ leaf # None
                   /\ r.before[leaf].commodity # r.currency
                   /\ r.after = r.before
            /\ leaf = None
                => /\ r.result > Len(r.before)
                   /\ r.result = AccountAt(r.after, r.account_tuple, Root)

\* a call that was refused, and a call that created the leaf it returned
C4_Witness ==
    /\ \E r \in Resolutions : r.result = None
    /\ \E r \in Resolutions :
           /\ Len(r.after) = Len(r.before) + 1
           /\ r.result = Len(r.after)

(***************************************************************************)
(* C5  Collision policy.  As claimed: whatever the bucket, the canonical   *)
(* path is the one tried first.                                            *)
(***************************************************************************)
C5_AsClaimed ==
    \A i \in DOMAIN calls :
        calls[i].resolved # << >>
            => calls[i].resolved[1].account_tuple = OPENING_BALANCE_ACCOUNT

\* C5 as amended: for a bucket of the preferred currency the canonical path
\* is tried first and, when it is refused, the suffixed path once; for any
\* other bucket the suffixed path alone is tried, once.  When the last path
\* tried is refused the run aborts: the transaction of the bucket stays
\* open, no split is added, no later bucket is finalized and no business
\* entity is cloned.
C5_CollisionPolicy ==
    \A i \in DOMAIN calls :
        LET c == calls[i]
            n == Len(c.resolved)
        IN  /\ n \in {1, 2}
            /\ c.is_main_currency
                => /\ c.resolved[1].account_tuple = OPENING_BALANCE_ACCOUNT
                   /\ n = 2 <=> c.resolved[1].result = None
                   /\ n = 2 => c.resolved[2].account_tuple
                                   = SuffixedPath(c.key)
            /\ ~ c.is_main_currency
                => /\ n = 1
                   /\ c.resolved[1].account_tuple = SuffixedPath(c.key)
            /\ c.raised <=> c.resolved[n].result = None
            /\ c.raised
                => /\ pc = "aborted"
                   /\ i = Len(calls)
                   /\ transactions[c.trans].state = "open"
                   /\ Len(splits) = c.splits_before
                   /\ accounts = c.before
                   /\ cloned = << >>

\* both paths were refused to a bucket of the preferred currency, after an
\* earlier bucket had been finalized
C5_Witness ==
    /\ pc = "aborted"
    /\ \E i \in DOMAIN calls :
           /\ i > 1
           /\ calls[i].raised
           /\ calls[i].is_main_currency
           /\ Len(calls[i].resolved) = 2

(***************************************************************************)
(* C6  Tree shape preservation: after a completed run into a new target,   *)
(* the accounts of the target that replicate an account of the old book    *)
(* correspond one to one to the accounts below the old root, with the same *)
(* name and the corresponding parent; every other account of the target is *)
(* the top-level account "Equity" or lies below a top-level "Equity".      *)
(***************************************************************************)
C6_TreeShape ==
    (pc = "done" /\ ~ target_existed)
        => /\ \A o \in AccountIds :
                  \E a \in Replicated :
                      /\ accounts[a].orig = o
                      /\ \A a2 \in Replicated : accounts[a2].orig = o => a2 = a
                      /\ accounts[a].name = original[o].name
                      /\ IF original_tree[o] = Root
                         THEN accounts[a].parent = Root
                         ELSE /\ accounts[a].parent \in Replicated
                              /\ accounts[accounts[a].parent].orig
                                     = original_tree[o]
           /\ \A a \in DOMAIN accounts \ Replicated :
                  /\ PathOf(accounts, a)[1] = "Equity"
                  /\ Len(PathOf(accounts, a)) <= 2

\* a completed run into a new target that replicated a nested account and
\* made both opening accounts itself
C6_Witness ==
    /\ pc = "done"
    /\ ~ target_existed
    /\ \E o \in AccountIds : original_tree[o] # Root
    /\ Cardinality(DOMAIN accounts \ Replicated) = 2

(***************************************************************************)
(* C7  Accumulate exactly once: as long as no bucket has been finalized,   *)
(* every replicated account of an eligible type (bank, cash, credit,       *)
(* asset, liability, equity) with a nonzero balance in the old book        *)
(* carries exactly one split, valued at exactly that balance; every other  *)
(* replicated account carries none; of all account types exactly those six *)
(* are eligible; and whatever the types, replication raises nothing and    *)
(* replicates every account.                                               *)
(***************************************************************************)
C7_AccumulateOnce ==
    NothingFinalized
        => /\ \A a \in Replicated :
                  LET o == original[accounts[a].orig]
                  IN  IF o.type \in EligibleTypes /\ o.balance.num # 0
                      THEN /\ Len(SplitsOn(a)) = 1
                           /\ SplitsOn(a)[1].value = o.balance
                      ELSE SplitsOn(a) = << >>
           /\ \A t \in AcctType :
                  is_eligible(t, GncNumeric(1, 1)) <=> t \in EligibleTypes
           /\ error = ""
           /\ pc = "finalize"
                  => \A o \in AccountIds :
                         \E a \in Replicated : accounts[a].orig = o

\* replication is over: an account carries its split, an account of a type
\* never classified carries none though its balance is not zero
C7_Witness ==
    /\ NothingFinalized
    /\ pc = "finalize"
    /\ \E a \in Replicated : Len(SplitsOn(a)) = 1
    /\ \E a \in Replicated :
           /\ accounts[a].type = "ACCT_TYPE_CHECKING"
           /\ original[accounts[a].orig].balance.num # 0
           /\ SplitsOn(a) = << >>

(***************************************************************************)
(* C8  Bucket total: as long as no bucket has been finalized, every key    *)
(* (type bucket, commodity) has at most one entry, and the total of the    *)
(* entry is the negated sum of the balances of the eligible accounts       *)
(* replicated so far that have this commodity and whose type maps to this  *)
(* bucket (its own for asset and liability, "*" for the others).           *)
(***************************************************************************)
C8_BucketTotal ==
    NothingFinalized
        => \A b \in BucketNames, c \in Commodities :
               /\ Cardinality(EntriesOf(b, c)) <= 1
               /\ \A i \in EntriesOf(b, c) :
                      GncEq(opening_balances_per_type_and_curr[b][i].total,
                            GncNeg(SumValues(ContributedBalances(b, c))))

\* during replication: an entry of a tracked type that two accounts have
\* contributed to, and its total is not zero
C8_Witness ==
    /\ pc = "replicate"
    /\ \E c \in Commodities :
           /\ Len(Contributors("ACCT_TYPE_ASSET", c)) = 2
           /\ \A k \in 1 .. 2 :
                  ContributedBalances("ACCT_TYPE_ASSET", c)[k].num # 0
           /\ \E i \in EntriesOf("ACCT_TYPE_ASSET", c) :
                  opening_balances_per_type_and_curr
                      ["ACCT_TYPE_ASSET"][i].total.num # 0

(***************************************************************************)
(* C9  Zero-balance exclusion: when replication is over, a key (type       *)
(* bucket, commodity) has an entry, and a transaction, if and only if an   *)
(* eligible account of this commodity and type bucket has a nonzero        *)
(* balance; an eligible account with a zero balance carries no split.      *)
(***************************************************************************)
C9_ZeroBalanceExclusion ==
    (NothingFinalized /\ pc = "finalize")
        => /\ \A b \in BucketNames, c \in Commodities :
                  EntriesOf(b, c) # {}
                      <=> \E k \in DOMAIN ContributedBalances(b, c) :
                              ContributedBalances(b, c)[k].num # 0
           /\ Len(transactions)
                  = Cardinality({ bc \in BucketNames \X Commodities :
                                      EntriesOf(bc[1], bc[2]) # {} })
           /\ \A a \in Replicated :
                  original[accounts[a].orig].balance.num = 0
                      => SplitsOn(a) = << >>

\* replication is over: an eligible account with a zero balance is the only
\* one of its key, which has no entry, while another key has one
C9_Witness ==
    /\ NothingFinalized
    /\ pc = "finalize"
    /\ transactions # << >>
    /\ \E b \in BucketNames, c \in Commodities :
           /\ Len(Contributors(b, c)) = 1
           /\ ContributedBalances(b, c)[1].num = 0
           /\ EntriesOf(b, c) = {}

(***************************************************************************)
(* C10  Zero-total finalization, as claimed: when the total of a bucket is *)
(* zero at its finalization, the finalization leaves the account tree of   *)
(* the target as it was, adds no split, and the transaction is committed   *)
(* with its date, currency and description.                                *)
(***************************************************************************)
C10_ZeroTotalFinalization ==
    \A i \in DOMAIN calls :
        calls[i].amount.num = 0
            => /\ calls[i].after = calls[i].before
               /\ ~ calls[i].raised
               /\ transactions[calls[i].trans]
                      = [state |-> "committed", date |-> OPENING_DATE,
                         currency |-> calls[i].key,
                         description |-> "Opening Balance"]

(***************************************************************************)
(* C11  Bucket lifecycle: the transaction of a bucket is created open by   *)
(* the first contribution and goes from open to committed only, and only   *)
(* once the whole tree is replicated; a committed transaction gets no      *)
(* further split and stays committed; in a completed run every             *)
(* transaction opened, of every type bucket and currency, the preferred    *)
(* one included, has been finalized by exactly one call and none is open.  *)
(***************************************************************************)
\* the splits of transaction t among `sps`
SplitsOf(sps, t) == SelectSeq(sps, LAMBDA sp : sp.parent = t)

\* the calls made so far that finalized transaction t
FinalizationsOf(t) == { i \in DOMAIN calls : calls[i].trans = t }

C11_Step ==
    /\ Len(transactions') >= Len(transactions)
    /\ \A t \in DOMAIN transactions' :
           IF t \in DOMAIN transactions
           THEN \/ transactions'[t].state = transactions[t].state
                \/ /\ transactions[t].state = "open"
                   /\ transactions'[t].state = "committed"
                   /\ pc = "finalize"
                   /\ stack = << >>
           ELSE /\ transactions'[t].state = "open"
                /\ pc = "replicate"
                /\ Len(SplitsOf(splits', t)) = 1
    /\ \A t \in DOMAIN transactions :
           (transactions[t].state = "committed" \/ pc # "replicate")
           => /\ Len(SplitsOf(splits', t)) <= Len(SplitsOf(splits, t)) + 1
              /\ transactions[t].state = "committed"
                     => SplitsOf(splits', t) = SplitsOf(splits, t)
              /\ Len(SplitsOf(splits', t)) > Len(SplitsOf(splits, t))
                     => transactions'[t].state = "committed"

C11_Completed ==
    pc = "done"
        => \A t \in DOMAIN transactions :
               /\ transactions[t].state = "committed"
               /\ Cardinality(FinalizationsOf(t)) = 1

C11_BucketLifecycle ==
    /\ [][C11_Step]_vars
    /\ [](pc = "replicate" => calls = << >>)
    /\ [](\A t \in DOMAIN transactions :
              /\ Cardinality(FinalizationsOf(t)) <= 1
              /\ transactions[t].state \in {"open", "committed"}
              /\ transactions[t].state = "committed"
                     => \E i \in FinalizationsOf(t) : ~ calls[i].raised)
    /\ []C11_Completed

\* a completed run that finalized a bucket of the preferred currency and a
\* bucket of another currency, of two type buckets, one of them after two
\* contributions
C11_Witness ==
    /\ pc = "done"
    /\ Len(transactions) = 2
    /\ \E i, j \in DOMAIN calls :
           /\ calls[i].key = PREFERRED_CURRENCY
           /\ calls[i].is_main_currency
           /\ calls[j].key # PREFERRED_CURRENCY
           /\ calls[i].trans # calls[j].trans
    /\ \E t \in DOMAIN transactions : Len(SplitsOf(splits, t)) = 2

(***************************************************************************)
(* C12  Commodity bridging: in every state reached during replication the  *)
(* commodity table of the target holds at most one commodity per           *)
(* (namespace, mnemonic); bridging a (namespace, mnemonic) the table holds *)
(* already inserts nothing and yields the entry it held, the entries never *)
(* move; and every replicated account has the commodity of the table whose *)
(* (namespace, mnemonic) is that of the commodity of its original.         *)
(***************************************************************************)
\* the positions of the entries of a (namespace, mnemonic) in a table
EntriesFor(table, commodity) ==
    { i \in DOMAIN table :
          /\ Namespace(table[i]) = Namespace(commodity)
          /\ Mnemonic(table[i]) = Mnemonic(commodity) }

C12_State ==
    /\ \A c \in Commodities : Cardinality(EntriesFor(commodtable, c)) <= 1
    /\ \A a \in Replicated :
           /\ Cardinality(EntriesFor(commodtable,
                                     original[accounts[a].orig].commodity))
                  = 1
           /\ \E i \in EntriesFor(commodtable,
                                  original[accounts[a].orig].commodity) :
                  accounts[a].commodity = commodtable[i]

C12_Step ==
    /\ Len(commodtable') >= Len(commodtable)
    /\ SubSeq(commodtable', 1, Len(commodtable)) = commodtable
    /\ \A c \in Commodities :
           EntriesFor(commodtable, c) # {}
               => EntriesFor(commodtable', c) = EntriesFor(commodtable, c)
    /\ Len(commodtable') > Len(commodtable) => pc = "replicate"

C12_CommodityBridging ==
    /\ []C12_State
    /\ [][C12_Step]_vars

\* during replication into a new target: two accounts of one commodity are
\* replicated and the table holds the one entry the first of them inserted
C12_Witness ==
    /\ pc = "replicate"
    /\ ~ target_existed
    /\ Len(commodtable) = 1
    /\ Cardinality(Replicated) = 2
    /\ \A a \in Replicated : accounts[a].commodity = commodtable[1]

(***************************************************************************)
(* C13  Business duplication after the opening balances, as claimed: when  *)
(* a run has ended and neither replication nor any finalization raised a   *)
(* conflict, be it that no bucket received any contribution, every entity  *)
(* that get_all returns has been cloned exactly once, the vendors, then    *)
(* the customers, then the employees; and no entity is cloned while a      *)
(* bucket is still to be finalized.                                        *)
(***************************************************************************)
\* every entity of the old book, in the order of duplicate_business
RECURSIVE AllEntities(_)
AllEntities(i) ==
    IF i > Len(EntityClasses) THEN << >>
    ELSE Entities[EntityClasses[i]] \o AllEntities(i + 1)

\* no call of create_opening_balance_transaction has raised
NoConflict == \A i \in DOMAIN calls : ~ calls[i].raised

C13_BusinessDuplication ==
    /\ (pc \in {"done", "aborted"} /\ NoConflict)
           => cloned = AllEntities(1)
    /\ cloned # << >>
           => /\ pc \in {"business", "done"}
              /\ \A t \in DOMAIN transactions :
                     transactions[t].state = "committed"

(***************************************************************************)
(* C14  The lookup of finalization never fails: every key that has an      *)
(* entry in a dict of opening balances has a commodity in the table of     *)
(* the target, since replication registers the commodity of an account     *)
(* before the account contributes; so whenever                             *)
(* create_opening_balance_transaction is called for a key, the lookup of   *)
(* lines 355-356 finds a commodity and the assertion on it holds.          *)
(***************************************************************************)
\* the keys that have an entry in some dict
OpenKeys ==
    UNION { { opening_balances_per_type_and_curr[b][i].key :
                  i \in DOMAIN opening_balances_per_type_and_curr[b] } :
            b \in BucketNames }

C14_LookupNeverFails ==
    /\ \A k \in OpenKeys :
           /\ TableHas(commodtable, k)
           /\ lookup(commodtable, k) = k
    /\ \A i \in DOMAIN calls :
           /\ TableHas(commodtable, calls[i].key)
           /\ lookup(commodtable, calls[i].key) = calls[i].key
           /\ calls[i].raised => calls[i].resolved # << >>
    /\ error # "AttributeError"

\* buckets of two keys were finalized in a new target, whose table holds
\* what replication registered
C14_Witness ==
    /\ ~ target_existed
    /\ Len(commodtable) = 2
    /\ Len(calls) = 2
    /\ calls[1].key # calls[2].key
    /\ \A i \in DOMAIN calls : ~ calls[i].raised

====
